---- MODULE Spec2Model ----
(***************************************************************************)
(* The budget analyzer backend of app.py: POST /upload saves an uploaded   *)
(* SQLite file, analyze_db aggregates it, the result is rendered into the  *)
(* single report file, and GET /report serves that file.                   *)
(*                                                                         *)
(* A database is a record                                                  *)
(*   valid      the file is an SQLite database                             *)
(*   budgetCols the columns of table daily_budget ({} = no such table)     *)
(*   budget     its rows, in scan (rowid) order, row i having id i         *)
(*   taskCols   the columns of table tasks ({} = no such table)            *)
(*   tasks      its rows                                                   *)
(* Column values are whole OMR; every number the Python code holds is kept *)
(* in hundredths of OMR, so that planBudget * 0.2 and the two-decimal      *)
(* formatting are exact.                                                   *)
(***************************************************************************)
EXTENDS Integers, Sequences, FiniteSets, TLC

VARIABLES
    uploads,     \* UPLOAD_FOLDER: filename -> <<db>> when saved, <<>> when not
    reportFile,  \* REPORT_FILE: [exists, content]
    clock,       \* the wall clock, in seconds
    pc,          \* per worker thread: where its upload request stands
    req,         \* per worker: the upload request it is serving
    analysed,    \* per worker: the database analyze_db read
    metrics,     \* per worker: the locals of analyze_db after its try block
    timestamp,   \* per worker: the timestamp of line 221
    resp,        \* per worker: the last response it sent to POST /upload
    reportResp,  \* the last response to GET /report
    accepted,    \* history: how many uploads passed validation
    completed,   \* history: the uploads that answered 200, in order
    lastWrite    \* history: the document of the latest write to REPORT_FILE

vars == <<uploads, reportFile, clock, pc, req, analysed, metrics, timestamp,
          resp, reportResp, accepted, completed, lastWrite>>

----------------------------------------------------------------------------
(* Bounds of the model *)

MaxWorkers == 2
MaxRequests == 2
MaxClock == 1
MaxBudgetRows == 8
MaxTasks == 4

(* Program constants *)

LastN == 7
TopLimit == 3

Workers == 1..MaxWorkers

----------------------------------------------------------------------------
(* Generic helpers *)

Range(s) == {s[i] : i \in DOMAIN s}

Min(a, b) == IF a <= b THEN a ELSE b

Max(a, b) == IF a >= b THEN a ELSE b

RECURSIVE SumSet(_, _)
\* The sum of f[x] over the finite set S.
SumSet(f, S) ==
    IF S = {} THEN 0
    ELSE LET x == CHOOSE y \in S : TRUE IN f[x] + SumSet(f, S \ {x})

\* The position row i takes when the rows are sorted by keys, rows with equal
\* keys keeping their scan order (SQLite's sorter, observed on ORDER BY date).
Rank(keys, i) ==
    Cardinality({j \in DOMAIN keys :
                    keys[j] < keys[i] \/ (keys[j] = keys[i] /\ j < i)}) + 1

\* The scan positions in sorted order.
StableOrder(keys) ==
    [k \in DOMAIN keys |-> CHOOSE i \in DOMAIN keys : Rank(keys, i) = k]

----------------------------------------------------------------------------
(* The per-query helpers *)

BudgetColumns == {"id", "date", "planBudget", "saving"}

TaskColumns == {"category", "subTask", "amount", "dailyBudgetId"}

\* cur.execute succeeds: the file is a database and the statement's columns
\* (and so its table) exist.
Executes(db, cols, needed) == db.valid /\ needed \subseteq cols

\* SELECT id FROM daily_budget ORDER BY date [DESC]
OrderByDate(db, desc) ==
    LET keys == [i \in DOMAIN db.budget |->
                    IF desc THEN 0 - db.budget[i].date ELSE db.budget[i].date]
        ord == StableOrder(keys)
    IN  [k \in DOMAIN db.budget |-> db.budget[ord[k]].id]

get_all_budget_ids(db) ==
    IF Executes(db, db.budgetCols, {"id", "date"})
    THEN OrderByDate(db, FALSE)
    ELSE <<>>

\* A faulty variant: the n oldest days instead of the n latest.
get_first_n_budget_ids(db, n) ==
    IF Executes(db, db.budgetCols, {"id", "date"})
    THEN LET ids == OrderByDate(db, FALSE) IN SubSeq(ids, 1, Min(n, Len(ids)))
    ELSE <<>>

get_last_n_budget_ids(db, n) ==
    IF Executes(db, db.budgetCols, {"id", "date"})
    THEN LET ids == OrderByDate(db, TRUE) IN SubSeq(ids, 1, Min(n, Len(ids)))
    ELSE <<>>

\* A faulty variant: no WHERE clause.
TaskFilterNone(db, budget_ids) == DOMAIN db.tasks

\* The tasks rows the WHERE dailyBudgetId IN (...) clause keeps.
TaskFilter(db, budget_ids) ==
    {i \in DOMAIN db.tasks : db.tasks[i].dailyBudgetId \in Range(budget_ids)}

\* A faulty variant: ORDER BY total ASC.
TopGroupsAscending(db, key, budget_ids, limit) ==
    LET kept == TaskFilter(db, budget_ids)
        labels == {db.tasks[i][key] : i \in kept}
        amount == [i \in DOMAIN db.tasks |-> db.tasks[i].amount * 100]
        total == [g \in labels |->
                    SumSet(amount, {i \in kept : db.tasks[i][key] = g})]
        place(g) == Cardinality({h \in labels :
                        total[h] < total[g] \/ (total[h] = total[g] /\ h > g)}) + 1
        n == Min(limit, Cardinality(labels))
    IN  [k \in 1..n |->
            LET g == CHOOSE h \in labels : place(h) = k
            IN  [label |-> g, total |-> total[g]]]

\* SELECT key, SUM(amount) AS total ... GROUP BY key ORDER BY total DESC LIMIT ?
\* as a list of [label, total]; groups with equal totals come out in
\* descending label order (SQLite 3.40's sorter over the grouped rows).
TopGroups(db, key, budget_ids, limit) ==
    LET kept == TaskFilter(db, budget_ids)
        labels == {db.tasks[i][key] : i \in kept}
        amount == [i \in DOMAIN db.tasks |-> db.tasks[i].amount * 100]
        total == [g \in labels |->
                    SumSet(amount, {i \in kept : db.tasks[i][key] = g})]
        place(g) == Cardinality({h \in labels :
                        total[h] > total[g] \/ (total[h] = total[g] /\ h > g)}) + 1
        n == Min(limit, Cardinality(labels))
    IN  [k \in 1..n |->
            LET g == CHOOSE h \in labels : place(h) = k
            IN  [label |-> g, total |-> total[g]]]

get_top_categories(db, budget_ids, limit) ==
    IF Executes(db, db.taskCols, {"category", "amount", "dailyBudgetId"})
    THEN TopGroups(db, "category", budget_ids, limit)
    ELSE <<>>

get_top_subtasks(db, budget_ids, limit) ==
    IF Executes(db, db.taskCols, {"subTask", "amount", "dailyBudgetId"})
    THEN TopGroups(db, "subTask", budget_ids, limit)
    ELSE <<>>

----------------------------------------------------------------------------
(* analyze_db *)

\* An SQL value that may be NULL: <<>> is NULL, <<v>> is v.
\* SUM(...) over the rows in S: NULL when there is no row.
SqlSum(f, S) == IF S = {} THEN <<>> ELSE <<SumSet(f, S)>>

\* row[k] if row and row[k] is not None else 0
OrZero(v) == IF v # <<>> THEN v[1] ELSE 0

\* SELECT SUM(planBudget * 0.2), SUM(saving) over the daily_budget rows in S,
\* in hundredths of OMR.
SavingsRow(db, S) ==
    LET goal == [i \in DOMAIN db.budget |-> db.budget[i].planBudget * 20]
        saving == [i \in DOMAIN db.budget |-> db.budget[i].saving * 100]
    IN  [goal |-> SqlSum(goal, S), saving |-> SqlSum(saving, S)]

\* The statement of the last-7 savings query and the parameters bound to it.
Last7Statement(last7_budget_ids) ==
    [placeholders |-> Len(last7_budget_ids),
     params |-> IF last7_budget_ids # <<>> THEN last7_budget_ids ELSE <<0 - 1>>]

\* sqlite3 raises ProgrammingError unless as many parameters are bound as the
\* statement has placeholders.
Last7Executes(db, stmt) ==
    /\ Executes(db, db.budgetCols, {"id", "planBudget", "saving"})
    /\ stmt.placeholders = Len(stmt.params)

\* The values the except branch assigns.
ExceptDefaults ==
    [X |-> 0,
     overall_goal_savings |-> 0, overall_total_savings |-> 0,
     last7_goal_savings |-> 0, last7_total_savings |-> 0,
     all_top_categories |-> <<>>, all_top_subtasks |-> <<>>,
     last7_top_categories |-> <<>>, last7_top_subtasks |-> <<>>]

\* A faulty variant: the except branch forgets to reset the record count.
ExceptKeepsCount(X) == [ExceptDefaults EXCEPT !.X = X]

\* The locals after the except branch ran; X is what the try block had
\* assigned before the exception.
ExceptBranch(X) == ExceptDefaults

\* The locals of analyze_db after its try/except, with two observations
\* added: raised (the except branch ran) and last7_statement (<<>> until the
\* last-7 savings query is issued, then the statement issued).
analyze_db(db) ==
    LET all_budget_ids == get_all_budget_ids(db)
        last7_budget_ids == get_last_n_budget_ids(db, LastN)
        X == Len(all_budget_ids)
        overallRuns == Executes(db, db.budgetCols, {"planBudget", "saving"})
        row == SavingsRow(db, DOMAIN db.budget)
        stmt == Last7Statement(last7_budget_ids)
        last7Runs == Last7Executes(db, stmt)
        row7 == SavingsRow(db, {i \in DOMAIN db.budget :
                                    db.budget[i].id \in Range(stmt.params)})
        issued == IF overallRuns THEN <<stmt>> ELSE <<>>
        obs(locals, raised) ==
            [X |-> locals.X,
             overall_goal_savings |-> locals.overall_goal_savings,
             overall_total_savings |-> locals.overall_total_savings,
             last7_goal_savings |-> locals.last7_goal_savings,
             last7_total_savings |-> locals.last7_total_savings,
             all_top_categories |-> locals.all_top_categories,
             all_top_subtasks |-> locals.all_top_subtasks,
             last7_top_categories |-> locals.last7_top_categories,
             last7_top_subtasks |-> locals.last7_top_subtasks,
             raised |-> raised, last7_statement |-> issued]
    IN  IF overallRuns /\ last7Runs
        THEN obs([X |-> X,
                  overall_goal_savings |-> OrZero(row.goal),
                  overall_total_savings |-> OrZero(row.saving),
                  last7_goal_savings |-> OrZero(row7.goal),
                  last7_total_savings |-> OrZero(row7.saving),
                  all_top_categories |->
                      IF all_budget_ids # <<>>
                      THEN get_top_categories(db, all_budget_ids, TopLimit) ELSE <<>>,
                  all_top_subtasks |->
                      IF all_budget_ids # <<>>
                      THEN get_top_subtasks(db, all_budget_ids, TopLimit) ELSE <<>>,
                  last7_top_categories |->
                      IF last7_budget_ids # <<>>
                      THEN get_top_categories(db, last7_budget_ids, TopLimit) ELSE <<>>,
                  last7_top_subtasks |->
                      IF last7_budget_ids # <<>>
                      THEN get_top_subtasks(db, last7_budget_ids, TopLimit) ELSE <<>>],
                 FALSE)
        ELSE obs(ExceptBranch(X), TRUE)

----------------------------------------------------------------------------
(* Rendering.  A document is a sequence of tokens, one per piece of text    *)
(* whose presence or value depends on the data.                             *)

Token(tag, text, label, hundredths) ==
    [tag |-> tag, text |-> text, label |-> label,
     whole |-> hundredths \div 100, frac |-> hundredths % 100]

\* "<li>No data available.</li>"
NoDataItem == Token("li", "No data available.", 0, 0)

\* "({v:.2f} OMR)"
AmountItem(v) == Token("amount", "OMR", 0, v)

\* A faulty variant: an empty list renders nothing.
FormatListNoPlaceholder(items) ==
    [k \in DOMAIN items |-> Token("li", "item", items[k].label, items[k].total)]

format_category_list(items) ==
    IF items = <<>> THEN <<NoDataItem>>
    ELSE [k \in DOMAIN items |-> Token("li", "item", items[k].label, items[k].total)]

format_subtask_list(items) ==
    IF items = <<>> THEN <<NoDataItem>>
    ELSE [k \in DOMAIN items |-> Token("li", "item", items[k].label, items[k].total)]

\* The saving summary section.
saving_html(m) ==
    <<Token("records", "X", m.X, 0),
      AmountItem(m.overall_goal_savings), AmountItem(m.overall_total_savings),
      AmountItem(m.last7_goal_savings), AmountItem(m.last7_total_savings)>>

\* The fragment analyze_db returns, section by section.
summary_html(m) ==
    [saving |-> saving_html(m),
     title |-> <<Token("records", "X", m.X, 0)>>,
     all_categories |-> format_category_list(m.all_top_categories),
     all_subtasks |-> format_subtask_list(m.all_top_subtasks),
     last7_categories |-> format_category_list(m.last7_top_categories),
     last7_subtasks |-> format_subtask_list(m.last7_top_subtasks)]

\* A faulty variant: the footer is left out of the document.
HtmlNoFooter(summary, filename, ts) ==
    <<Token("h1", "AI Analyzer Report", 0, 0)>> \o summary.saving \o summary.title
        \o summary.all_categories \o summary.all_subtasks
        \o summary.last7_categories \o summary.last7_subtasks

\* The document upload writes: the fragment, then the footer with the
\* uploaded filename and the timestamp.
Html(summary, filename, ts) ==
    <<Token("h1", "AI Analyzer Report", 0, 0)>> \o summary.saving \o summary.title
        \o summary.all_categories \o summary.all_subtasks
        \o summary.last7_categories \o summary.last7_subtasks
        \o <<Token("filename", filename, 0, 0), Token("generated", "timestamp", ts, 0)>>

\* "<h1>AI Analyzer Report</h1><p>No analysis yet.</p>"
Placeholder == <<Token("h1", "AI Analyzer Report", 0, 0), Token("p", "No analysis yet.", 0, 0)>>

----------------------------------------------------------------------------
(* The databases and requests the model draws its inputs from *)

FullSchema == [valid |-> TRUE, budgetCols |-> BudgetColumns, budget |-> <<>>,
               taskCols |-> TaskColumns, tasks |-> <<>>]

\* An upload that is not an SQLite file.
NotADatabase == [valid |-> FALSE, budgetCols |-> {}, budget |-> <<>>,
                 taskCols |-> {}, tasks |-> <<>>]

\* A database with the schema and no rows.
EmptyDb == FullSchema

\* Budget day i: every day has its own plan and saving, so that a sum tells
\* which days went into it.
BudgetRow(i, date) == [id |-> i, date |-> date, planBudget |-> 10 * i, saving |-> i]

TaskRow(b, c, s, a) == [dailyBudgetId |-> b, category |-> c, subTask |-> s, amount |-> a]

\* Two budget days and three expenses in two categories, one of them
\* referring to no budget day.
SmallDb ==
    [FullSchema EXCEPT !.budget = <<BudgetRow(1, 2), BudgetRow(2, 1)>>,
                       !.tasks = <<TaskRow(1, 1, 1, 4), TaskRow(2, 2, 1, 6),
                                   TaskRow(9, 3, 2, 50)>>]

UploadNames == {"a.db", "b.db"}

Request(hasFile, filename, db) == [hasFile |-> hasFile, filename |-> filename, db |-> db]

\* A request without a file field, and one whose file has an empty filename.
BadRequests == {Request(FALSE, "", NotADatabase), Request(TRUE, "", EmptyDb)}

\* The requests of the request-level specifications.
Requests == BadRequests \cup {Request(TRUE, f, d) : f \in UploadNames, d \in {EmptyDb, SmallDb}}

\* A table as created, with one of its columns missing, or missing itself.
ColumnChoices(cols) == {cols, {}} \cup {cols \ {c} : c \in cols}

\* Databases whose queries fail: SmallDb and EmptyDb under every such schema,
\* and a file that is no database.
SchemaDbs ==
    {NotADatabase} \cup
    {[d EXCEPT !.budgetCols = bc, !.taskCols = tc] :
        d \in {EmptyDb, SmallDb},
        bc \in ColumnChoices(BudgetColumns), tc \in ColumnChoices(TaskColumns)}

SchemaRequests == {Request(TRUE, "a.db", d) : d \in SchemaDbs}

Dates == {1, 2}

\* Every daily_budget table of up to MaxBudgetRows days, each on any date.
BudgetDbs ==
    {[FullSchema EXCEPT !.budget = [i \in DOMAIN d |-> BudgetRow(i, d[i])]] :
        d \in UNION {[1..n -> Dates] : n \in 0..MaxBudgetRows}}

\* One more day than the recent window holds, the first day the oldest.
WindowBudget == [i \in 1..(LastN + 1) |-> BudgetRow(i, IF i = 1 THEN 1 ELSE 2)]

\* The days a task may refer to: the oldest, the latest, and none.
TaskBudgetIds == <<1, LastN + 1, LastN + 2>>

Labels == {1, 2, 3, 4}

NumTaskKinds == Len(TaskBudgetIds) * Cardinality(Labels)

\* The k-th kind of task row: a day and a category, with the sub-task and
\* the amount fixed by them.
TaskKind(k) ==
    LET b == ((k - 1) \div Cardinality(Labels)) + 1
        c == ((k - 1) % Cardinality(Labels)) + 1
    IN  TaskRow(TaskBudgetIds[b], c, 1 + ((b * c) % 4), 1 + ((b + c) % 3))

RECURSIVE NonDecreasing(_, _)
\* The sequences of at most n kinds from lo up, in nondecreasing order: the
\* aggregates do not depend on the order of the tasks rows.
NonDecreasing(n, lo) ==
    IF n = 0 THEN {<<>>}
    ELSE {<<>>} \cup UNION {{<<k>> \o s : s \in NonDecreasing(n - 1, k)} :
                              k \in lo..NumTaskKinds}

\* Every tasks table of up to MaxTasks rows, over no budget day and over
\* WindowBudget.
TaskDbs ==
    {[FullSchema EXCEPT !.budget = bt, !.tasks = [i \in DOMAIN ks |-> TaskKind(ks[i])]] :
        bt \in {<<>>, WindowBudget}, ks \in NonDecreasing(MaxTasks, 1)}

AnalysisRequests == {Request(TRUE, "a.db", d) : d \in BudgetDbs \cup TaskDbs}

----------------------------------------------------------------------------
(* The initial state: a started server, the report file absent (a WSGI     *)
(* host) or holding the placeholder (lines 410-413).                        *)

NoMetrics ==
    [X |-> 0,
     overall_goal_savings |-> 0, overall_total_savings |-> 0,
     last7_goal_savings |-> 0, last7_total_savings |-> 0,
     all_top_categories |-> <<>>, all_top_subtasks |-> <<>>,
     last7_top_categories |-> <<>>, last7_top_subtasks |-> <<>>,
     raised |-> FALSE, last7_statement |-> <<>>]

NoResponse == [status |-> 0, key |-> "", request |-> Request(FALSE, "", NotADatabase)]

Init ==
    /\ uploads = [f \in UploadNames |-> <<>>]
    /\ reportFile \in {[exists |-> FALSE, content |-> <<>>],
                       [exists |-> TRUE, content |-> Placeholder]}
    /\ clock = 0
    /\ pc = [p \in Workers |-> "idle"]
    /\ req = [p \in Workers |-> Request(FALSE, "", NotADatabase)]
    /\ analysed = [p \in Workers |-> NotADatabase]
    /\ metrics = [p \in Workers |-> NoMetrics]
    /\ timestamp = [p \in Workers |-> 0]
    /\ resp = [p \in Workers |-> NoResponse]
    /\ reportResp = [sent |-> FALSE, body |-> <<>>, accepted |-> 0, completed |-> <<>>]
    /\ accepted = 0
    /\ completed = <<>>
    /\ lastWrite = <<>>

----------------------------------------------------------------------------
(* POST /upload, statement by statement *)

\* A faulty variant: the empty filename is not checked.
ValidateFieldOnly(r) == IF ~r.hasFile THEN "No file part" ELSE ""

\* Lines 210-215: the error of a request, "" when it has none.
Validate(r) ==
    IF ~r.hasFile THEN "No file part"
    ELSE IF r.filename = "" THEN "No selected file"
    ELSE ""

\* Worker p answers request r with one of the two early returns.
UploadReject(p, r) ==
    /\ pc[p] = "idle"
    /\ Validate(r) # ""
    /\ resp' = [resp EXCEPT ![p] = [status |-> 400, key |-> "error", request |-> r]]
    /\ UNCHANGED <<uploads, reportFile, clock, pc, req, analysed, metrics,
                   timestamp, reportResp, accepted, completed, lastWrite>>

\* Worker p takes request r past the two checks, on to file.save.
UploadAccept(p, r) ==
    /\ pc[p] = "idle"
    /\ Validate(r) = ""
    /\ pc' = [pc EXCEPT ![p] = "save"]
    /\ req' = [req EXCEPT ![p] = r]
    /\ resp' = [resp EXCEPT ![p] = NoResponse]
    /\ accepted' = accepted + 1
    /\ UNCHANGED <<uploads, reportFile, clock, analysed, metrics, timestamp,
                   reportResp, completed, lastWrite>>

\* file.save(db_path): the file lands in the folder under its own name.
Save(p) ==
    /\ pc[p] = "save"
    /\ uploads' = [f \in DOMAIN uploads \cup {req[p].filename} |->
                     IF f = req[p].filename THEN <<req[p].db>> ELSE uploads[f]]
    /\ pc' = [pc EXCEPT ![p] = "analyze"]
    /\ UNCHANGED <<reportFile, clock, req, analysed, metrics, timestamp, resp,
                   reportResp, accepted, completed, lastWrite>>

\* analyze_db(db_path, file.filename) on the file now at db_path.
Analyze(p) ==
    /\ pc[p] = "analyze"
    /\ analysed' = [analysed EXCEPT ![p] = uploads[req[p].filename][1]]
    /\ metrics' = [metrics EXCEPT ![p] = analyze_db(uploads[req[p].filename][1])]
    /\ pc' = [pc EXCEPT ![p] = "stamp"]
    /\ UNCHANGED <<uploads, reportFile, clock, req, timestamp, resp, reportResp,
                   accepted, completed, lastWrite>>

\* datetime.now(): time has moved on since the last reading, or not.
Stamp(p) ==
    /\ pc[p] = "stamp"
    /\ \E t \in clock..MaxClock :
          /\ clock' = t
          /\ timestamp' = [timestamp EXCEPT ![p] = t]
    /\ pc' = [pc EXCEPT ![p] = "open"]
    /\ UNCHANGED <<uploads, reportFile, req, analysed, metrics, resp, reportResp,
                   accepted, completed, lastWrite>>

\* open(REPORT_FILE, "w"): creates or truncates; the position is 0.
OpenReport(p) ==
    /\ pc[p] = "open"
    /\ reportFile' = [exists |-> TRUE, content |-> <<>>]
    /\ pc' = [pc EXCEPT ![p] = "write"]
    /\ UNCHANGED <<uploads, clock, req, analysed, metrics, timestamp, resp,
                   reportResp, accepted, completed, lastWrite>>

\* What a write of data at position 0 leaves in a file holding old: data,
\* then whatever of old lies beyond it.
Overwrite(old, data) ==
    [k \in 1..Max(Len(old), Len(data)) |-> IF k <= Len(data) THEN data[k] ELSE old[k]]

\* f.write(html) and the close that flushes it: one write at position 0.
WriteReport(p) ==
    /\ pc[p] = "write"
    /\ LET html == Html(summary_html(metrics[p]), req[p].filename, timestamp[p])
       IN  /\ reportFile' = [exists |-> TRUE,
                             content |-> Overwrite(reportFile.content, html)]
           /\ lastWrite' = html
    /\ pc' = [pc EXCEPT ![p] = "respond"]
    /\ UNCHANGED <<uploads, clock, req, analysed, metrics, timestamp, resp,
                   reportResp, accepted, completed>>

\* return jsonify({'success': True, ...}), 200
Respond(p) ==
    /\ pc[p] = "respond"
    /\ resp' = [resp EXCEPT ![p] = [status |-> 200, key |-> "success", request |-> req[p]]]
    /\ completed' = Append(completed, [filename |-> req[p].filename,
                                       timestamp |-> timestamp[p]])
    /\ pc' = [pc EXCEPT ![p] = "idle"]
    /\ UNCHANGED <<uploads, reportFile, clock, req, analysed, metrics, timestamp,
                   reportResp, accepted, lastWrite>>

\* GET /report: the placeholder when the file does not exist, else the file.
Report ==
    /\ reportResp' = [sent |-> TRUE,
                      body |-> IF ~reportFile.exists THEN Placeholder
                               ELSE reportFile.content,
                      accepted |-> accepted, completed |-> completed]
    /\ UNCHANGED <<uploads, reportFile, clock, pc, req, analysed, metrics,
                   timestamp, resp, accepted, completed, lastWrite>>

\* The server: any worker takes a request or runs its next statement.
Next ==
    \/ \E p \in Workers : \E r \in Requests : UploadReject(p, r)
    \/ accepted < MaxRequests /\ \E p \in Workers : \E r \in Requests : UploadAccept(p, r)
    \/ \E p \in Workers : Save(p)
    \/ \E p \in Workers : Analyze(p)
    \/ \E p \in Workers : Stamp(p)
    \/ \E p \in Workers : OpenReport(p)
    \/ \E p \in Workers : WriteReport(p)
    \/ \E p \in Workers : Respond(p)
    \/ Report

Spec == Init /\ [][Next]_vars

\* The server up to the end of its first upload.
NextFirst ==
    \/ \E p \in Workers : \E r \in Requests : UploadReject(p, r)
    \/ accepted = 0 /\ \E p \in Workers : \E r \in Requests : UploadAccept(p, r)
    \/ \E p \in Workers : Save(p)
    \/ \E p \in Workers : Analyze(p)
    \/ \E p \in Workers : Stamp(p)
    \/ \E p \in Workers : OpenReport(p)
    \/ \E p \in Workers : WriteReport(p)
    \/ \E p \in Workers : Respond(p)
    \/ Report

SpecFirst == Init /\ [][NextFirst]_vars

\* The first upload, of a database some of whose queries fail.
NextSchema ==
    \/ accepted = 0 /\ \E r \in SchemaRequests : UploadAccept(1, r)
    \/ Save(1)
    \/ Analyze(1)
    \/ Stamp(1)
    \/ OpenReport(1)
    \/ WriteReport(1)
    \/ Respond(1)

SpecSchema == Init /\ [][NextSchema]_vars

\* analyze_db on the first upload, for every database of the two families.
NextAnalysis ==
    \/ accepted = 0 /\ \E r \in AnalysisRequests : UploadAccept(1, r)
    \/ Save(1)
    \/ Analyze(1)

SpecAnalysis == Init /\ [][NextAnalysis]_vars

----------------------------------------------------------------------------
(* Properties *)

\* Worker p holds the result of analyze_db for the request it is serving.
AnalysisDone(p) == pc[p] \in {"stamp", "open", "write", "respond"}

\* The daily_budget table has the columns of the data model.
BudgetSchemaOk(db) == Executes(db, db.budgetCols, BudgetColumns)

PlanOf(db) == [i \in DOMAIN db.budget |-> db.budget[i].planBudget * 100]

SavingOf(db) == [i \in DOMAIN db.budget |-> db.budget[i].saving * 100]

\* S is a set of min(LastN, n) rows none of which is older than a row left out.
IsRecentWindow(db, S) ==
    /\ S \subseteq DOMAIN db.budget
    /\ Cardinality(S) = Min(LastN, Len(db.budget))
    /\ \A i \in S : \A j \in DOMAIN db.budget \ S :
          db.budget[i].date >= db.budget[j].date

\* C1: the overall goal is 0.2 times the sum of planBudget over all rows and
\* the overall saving the sum of saving over them; the last-7 values are the
\* same two sums over the (at most 7) rows with the latest dates.
C1_SavingsAreWindowSums ==
    \A p \in Workers :
        (AnalysisDone(p) /\ BudgetSchemaOk(analysed[p])) =>
            LET db == analysed[p]
                m == metrics[p]
            IN  /\ 5 * m.overall_goal_savings = SumSet(PlanOf(db), DOMAIN db.budget)
                /\ m.overall_total_savings = SumSet(SavingOf(db), DOMAIN db.budget)
                /\ \E S \in SUBSET DOMAIN db.budget :
                      /\ IsRecentWindow(db, S)
                      /\ 5 * m.last7_goal_savings = SumSet(PlanOf(db), S)
                      /\ m.last7_total_savings = SumSet(SavingOf(db), S)

\* C1's case: more days than the window holds, days of several dates, and a
\* recent sum that is part of the overall sum.
C1_Witness ==
    \E p \in Workers :
        /\ AnalysisDone(p)
        /\ Len(analysed[p].budget) > LastN
        /\ \E i, j \in DOMAIN analysed[p].budget :
              analysed[p].budget[i].date # analysed[p].budget[j].date
        /\ 0 < metrics[p].last7_goal_savings
        /\ metrics[p].last7_goal_savings < metrics[p].overall_goal_savings
        /\ metrics[p].last7_total_savings < metrics[p].overall_total_savings

\* The ids of all days, and of the recent window, as sets.
AllWindow(db) == {db.budget[i].id : i \in DOMAIN db.budget}

RecentWindow(db) == Range(get_last_n_budget_ids(db, LastN))

\* The labels of the tasks rows of window W under key, and a label's total.
GroupsIn(db, key, W) ==
    {db.tasks[i][key] : i \in {j \in DOMAIN db.tasks : db.tasks[j].dailyBudgetId \in W}}

GroupTotal(db, key, W, g) ==
    SumSet([i \in DOMAIN db.tasks |-> db.tasks[i].amount * 100],
           {i \in DOMAIN db.tasks :
               db.tasks[i].dailyBudgetId \in W /\ db.tasks[i][key] = g})

\* L is a top list of window W under key: at most TopLimit entries, each a
\* group of the window with its total, in descending order of total, and no
\* group left out unless the list is full and its total is no larger than
\* that of any entry.
IsTopList(L, db, key, W) ==
    /\ Len(L) = Min(TopLimit, Cardinality(GroupsIn(db, key, W)))
    /\ \A k \in DOMAIN L :
          /\ L[k].label \in GroupsIn(db, key, W)
          /\ L[k].total = GroupTotal(db, key, W, L[k].label)
    /\ \A k, l \in DOMAIN L : k < l =>
          (L[k].total >= L[l].total /\ L[k].label # L[l].label)
    /\ \A g \in GroupsIn(db, key, W) \ {L[k].label : k \in DOMAIN L} :
          \A k \in DOMAIN L : L[k].total >= GroupTotal(db, key, W, g)

HasFooterOf(body, u) ==
    /\ Token("filename", u.filename, 0, 0) \in Range(body)
    /\ Token("generated", "timestamp", u.timestamp, 0) \in Range(body)

\* C3: GET /report before any upload answers the placeholder text; after one
\* successful upload it answers a document holding that upload's filename
\* and that upload's timestamp.
C3_ReportBeforeAndAfterUpload ==
    reportResp.sent =>
        /\ reportResp.accepted = 0 => reportResp.body = Placeholder
        /\ (reportResp.accepted = 1 /\ Len(reportResp.completed) = 1) =>
              HasFooterOf(reportResp.body, reportResp.completed[1])

\* C3's case: a report fetched after the one upload, which was stamped after
\* the clock had moved.
C3_Witness ==
    /\ reportResp.sent
    /\ Len(reportResp.completed) = 1
    /\ reportResp.completed[1].timestamp > 0
    /\ reportResp.body # Placeholder

\* The four list sections of the fragment hold the placeholder.
ListsShowNoData(summary) ==
    /\ summary.all_categories = <<NoDataItem>>
    /\ summary.all_subtasks = <<NoDataItem>>
    /\ summary.last7_categories = <<NoDataItem>>
    /\ summary.last7_subtasks = <<NoDataItem>>

\* The locals are the defaults: no record, no saving, no list.
AllDefault(m) ==
    /\ m.X = 0
    /\ m.overall_goal_savings = 0 /\ m.overall_total_savings = 0
    /\ m.last7_goal_savings = 0 /\ m.last7_total_savings = 0
    /\ m.all_top_categories = <<>> /\ m.all_top_subtasks = <<>>
    /\ m.last7_top_categories = <<>> /\ m.last7_top_subtasks = <<>>

\* C4 as amended: with no daily_budget row every aggregate is zero or empty
\* and each of the four top lists renders the placeholder; the saving
\* summary section holds no placeholder, it shows the record count 0 and the
\* four savings as 0.00 OMR.
C4_NoRowsGiveDefaultsAndListPlaceholders ==
    \A p \in Workers :
        (AnalysisDone(p) /\ analysed[p].budget = <<>>) =>
            /\ AllDefault(metrics[p])
            /\ ListsShowNoData(summary_html(metrics[p]))
            /\ summary_html(metrics[p]).saving =
                  <<Token("records", "X", 0, 0), AmountItem(0), AmountItem(0),
                    AmountItem(0), AmountItem(0)>>

\* C4 as claimed: with no daily_budget row the placeholder is in every
\* section of the fragment, the saving summary section included.
C4_PlaceholderInEverySection ==
    \A p \in Workers :
        (AnalysisDone(p) /\ analysed[p].budget = <<>>) =>
            /\ AllDefault(metrics[p])
            /\ ListsShowNoData(summary_html(metrics[p]))
            /\ NoDataItem \in Range(summary_html(metrics[p]).saving)

\* C4's case: a database with the schema, expenses, and no budget day.
C4_Witness ==
    \E p \in Workers :
        /\ AnalysisDone(p)
        /\ BudgetSchemaOk(analysed[p])
        /\ analysed[p].budget = <<>>
        /\ analysed[p].tasks # <<>>

\* C5: when the except branch of analyze_db ran, every metric is its
\* default and the fragment renders (each list as the placeholder); upload
\* then writes the document over the report file and answers 200.
C5_TopLevelFailureStillReports ==
    \A p \in Workers :
        metrics[p].raised =>
            /\ AllDefault(metrics[p])
            /\ ListsShowNoData(summary_html(metrics[p]))
            /\ pc[p] = "respond" =>
                  reportFile = [exists |-> TRUE,
                                content |-> Html(summary_html(metrics[p]),
                                                 req[p].filename, timestamp[p])]
            /\ pc[p] = "idle" => (resp[p].status = 200 /\ resp[p].key = "success")

\* C5's case: a database with budget days whose savings query failed, the
\* upload answered.
C5_Witness ==
    \E p \in Workers :
        /\ metrics[p].raised
        /\ analysed[p].valid
        /\ analysed[p].budget # <<>>
        /\ pc[p] = "idle"
        /\ resp[p].status = 200
        /\ reportFile.exists

\* The database without the tasks rows that refer to no daily_budget id.
WithoutOrphans(db) ==
    LET keep == {i \in DOMAIN db.tasks : db.tasks[i].dailyBudgetId \in AllWindow(db)}
        nth(k) == CHOOSE i \in keep : Cardinality({j \in keep : j < i}) = k - 1
    IN  [db EXCEPT !.tasks = [k \in 1..Cardinality(keep) |-> db.tasks[nth(k)]]]

\* C6: a tasks row whose dailyBudgetId is no daily_budget id contributes to
\* none of the four top lists and makes nothing fail: the analysis gives
\* what it gives on the database without such rows.
C6_OrphanTasksExcluded ==
    \A p \in Workers :
        AnalysisDone(p) => metrics[p] = analyze_db(WithoutOrphans(analysed[p]))

\* C6's case: budget days, an orphan task among tasks that are listed.
C6_Witness ==
    \E p \in Workers :
        /\ AnalysisDone(p)
        /\ ~metrics[p].raised
        /\ metrics[p].all_top_categories # <<>>
        /\ metrics[p].last7_top_subtasks # <<>>
        /\ \E i \in DOMAIN analysed[p].tasks :
              analysed[p].tasks[i].dailyBudgetId \notin AllWindow(analysed[p])

\* C7: a request with no file field, or with an empty filename, is answered
\* 400 with an error key, and answering it saves no file and leaves the
\* report file as it is.
C7_BadRequestRejected ==
    [][\A p \in Workers :
          (/\ resp'[p] # resp[p]
           /\ resp'[p].status # 0
           /\ (~resp'[p].request.hasFile \/ resp'[p].request.filename = ""))
          => (/\ resp'[p].status = 400
              /\ resp'[p].key = "error"
              /\ uploads' = uploads
              /\ reportFile' = reportFile)]_vars

\* C7's case: both kinds of bad request have been answered.
C7_Witness ==
    \E p, q \in Workers :
        /\ resp[p].status = 400 /\ ~resp[p].request.hasFile
        /\ resp[q].status = 400 /\ resp[q].request.hasFile
        /\ resp[q].request.filename = ""

\* C8 as claimed: a failing query costs only its own result; every
\* aggregation whose own query runs on the database has the value the
\* database gives.
C8_FailuresStayLocal ==
    \A p \in Workers :
        AnalysisDone(p) =>
            LET db == analysed[p]
                m == metrics[p]
                all_ids == get_all_budget_ids(db)
            IN  /\ m.X = Len(all_ids)
                /\ Executes(db, db.budgetCols, {"planBudget", "saving"}) =>
                      /\ m.overall_goal_savings =
                            OrZero(SavingsRow(db, DOMAIN db.budget).goal)
                      /\ m.overall_total_savings =
                            OrZero(SavingsRow(db, DOMAIN db.budget).saving)
                /\ all_ids # <<>> =>
                      /\ m.all_top_categories = get_top_categories(db, all_ids, TopLimit)
                      /\ m.all_top_subtasks = get_top_subtasks(db, all_ids, TopLimit)

\* C9 as claimed: with no id in the recent window the last-7 savings query
\* binds as many parameters as it has placeholders, and runs.
C9_EmptyWindowQueryWellFormed ==
    \A p \in Workers :
        (/\ AnalysisDone(p)
         /\ metrics[p].last7_statement # <<>>
         /\ get_last_n_budget_ids(analysed[p], LastN) = <<>>) =>
            /\ metrics[p].last7_statement[1].placeholders =
                  Len(metrics[p].last7_statement[1].params)
            /\ ~metrics[p].raised

\* C10 as claimed: once every upload has finished, the report file is
\* exactly the document of the upload that wrote last.
C10_LastWriteWins ==
    ((\A p \in Workers : pc[p] = "idle") /\ lastWrite # <<>>) =>
        reportFile.content = lastWrite

====
